---- MODULE Spec2Model ----
(***************************************************************************)
(* Model of rs/replay/src/player.rs: the Player's replay and restore       *)
(* entry points, the checkpoint verifier (verify_latest_cup), the batch    *)
(* delivery loops and the state waiters, together with the collaborators   *)
(* they drive (state manager, message routing, consensus pool, registry,   *)
(* backup spool).                                                          *)
(*                                                                         *)
(* The Player is single threaded: pc is its position, stack the return     *)
(* addresses of the calls in progress, loc its local variables.  The       *)
(* state manager executes queued batches in the background (SMExecute).    *)
(***************************************************************************)
EXTENDS Integers, Sequences, FiniteSets, TLC

\* ------------------------------------------------------------------ bounds
MaxHeight == 2
QueueCap == 1
MaxExtra == 1
MaxVersion == 2
MaxRecords == 3
MaxClock == 1

\* --------------------------------------------------------------- constants
\* replay_target_height: None
NoTarget == -1
\* get_state_hash: None
NoHash == -1
\* a digest no state of the state manager hashes to
ForeignDigest == -2
\* Randomness::from([0; 32])
ZeroSeed == 0

VARIABLES
    cfg,     \* the Player's construction: entry point called, pool presence, target
    pool,    \* consensus pool: finalized height, highest CUP, purge bound
    sm,      \* state manager: latest height, retained states, hash answers
    mr,      \* message routing: expected batch height, queue of accepted batches
    reg,     \* registry client: latest version of the local store
    arch,    \* backup spool: heights not yet ingested, archived CUPs, versions
    pc,      \* position of the Player
    stack,   \* return addresses
    loc,     \* local variables of the functions in progress
    result,  \* what replay / restore returned
    trace    \* history of the calls the Player made on its collaborators

vars == <<cfg, pool, sm, mr, reg, arch, pc, stack, loc, result, trace>>

Heights == 0..(MaxHeight + 1)

Min(a, b) == IF a < b THEN a ELSE b

Ev(e, h) == [e |-> e, h |-> h]

Log(e, h) == trace' = Append(trace, Ev(e, h))

\* ----------------------------------------------------------- control flow
Goto(l) == pc' = l /\ stack' = stack

Call(l, ret) == pc' = l /\ stack' = <<ret>> \o stack

Return == pc' = Head(stack) /\ stack' = Tail(stack)

\* panic!, expect, unreachable!, assert!: the process aborts
Abort == pc' = "aborted" /\ stack' = <<>>

\* ReplayResult and the Result of verify_latest_cup
NoRes == [t |-> "none", h |-> 0, d |-> 0]

OkUnit == [t |-> "Ok", h |-> 0, d |-> 0]

OkParams(p) == [t |-> "Ok", h |-> p.h, d |-> p.d]

StateDivergence(h) == [t |-> "StateDivergence", h |-> h, d |-> 0]

UpgradeDetected(p) == [t |-> "UpgradeDetected", h |-> p.h, d |-> p.d]

\* ------------------------------------------------------------ state manager
\* the digest the state manager computes for the state at height h
StateDigest(h) == h

\* get_state_hash_at(h): the answers the state manager can give.  A height
\* above the latest state, or a removed state, is a permanent error; an answer
\* once given stays, except "pending" (hash not computed yet), which is
\* transient.
HashAnswers(h) ==
    IF h > sm.latest \/ h \notin sm.states THEN {"perm"}
    ELSE IF sm.hash[h] \in {"unknown", "pending"}
         THEN {"digest", "nfc", "nfcOther", "perm"}
              \cup (IF sm.hash[h] = "unknown" THEN {"pending"} ELSE {})
         ELSE {sm.hash[h]}

RecordAnswer(h, r) ==
    IF h > sm.latest \/ h \notin sm.states THEN sm ELSE [sm EXCEPT !.hash[h] = r]

\* remove_states_below(h): the states strictly below h go, and their hashes
RemoveStatesBelow(s, h) ==
    [s EXCEPT !.states = {x \in s.states : x >= h},
              !.hash = [x \in Heights |-> IF x \in s.states /\ x < h
                                          THEN "unknown" ELSE s.hash[x]]]

\* the background execution of the next queued batch commits its state
SMExecute ==
    /\ pc # "aborted"
    /\ mr.queue # <<>>
    /\ LET h == Head(mr.queue) IN
        /\ sm' = [sm EXCEPT !.latest = h, !.states = @ \cup {h}]
        /\ mr' = [mr EXCEPT !.queue = Tail(@)]
    /\ UNCHANGED <<cfg, reg, arch, pool, pc, stack, loc, result, trace>>

\* ---------------------------------------------------------- message routing
\* deliver_batch(h): the outcomes possible for a batch numbered h.  A batch
\* with another number than the expected one is ignored; the Player cannot
\* rule out that the pipeline ignores a batch for a reason of its own.
DeliverOutcomes(h) ==
    IF h # mr.expected THEN {"ignored"}
    ELSE {"ignored"} \cup (IF Len(mr.queue) >= QueueCap THEN {"full"} ELSE {"ok"})

\* a refusal for a full queue is recorded once per height and call
LogFull(h) ==
    IF trace # <<>> /\ trace[Len(trace)] = Ev("full", h)
    THEN UNCHANGED trace
    ELSE Log("full", h)

Accept(h) == [mr EXCEPT !.queue = Append(@, h), !.expected = h + 1]

\* ------------------------------------------------------------ get_state_hash
\* (mutant) "not fully certified" counts as "no hash" whatever height it names
GetStateHashAnyHeight ==
    /\ pc = "get_state_hash"
    /\ \E r \in HashAnswers(loc.gshH) :
        /\ sm' = RecordAnswer(loc.gshH, r)
        /\ CASE r = "pending" ->
                    Goto("get_state_hash") /\ loc' = [loc EXCEPT !.gshAns = r]
             [] r = "digest" ->
                    /\ loc' = [loc EXCEPT !.gsh = StateDigest(loc.gshH), !.gshAns = r]
                    /\ Return
             [] r \in {"nfc", "nfcOther"} ->
                    loc' = [loc EXCEPT !.gsh = NoHash, !.gshAns = r] /\ Return
             [] OTHER -> Abort /\ loc' = [loc EXCEPT !.gshAns = r]
    /\ UNCHANGED <<cfg, reg, arch, pool, mr, result, trace>>

\* one call of get_state_hash_at(height) and the match on its answer:
\* "pending" is a transient error, "nfc" is StateNotFullyCertified(height),
\* "nfcOther" StateNotFullyCertified of another height, "perm" any other
\* permanent error
GetStateHash ==
    /\ pc = "get_state_hash"
    /\ \E r \in HashAnswers(loc.gshH) :
        /\ sm' = RecordAnswer(loc.gshH, r)
        /\ CASE r = "pending" ->
                    Goto("get_state_hash") /\ loc' = [loc EXCEPT !.gshAns = r]
             [] r = "digest" ->
                    /\ loc' = [loc EXCEPT !.gsh = StateDigest(loc.gshH), !.gshAns = r]
                    /\ Return
             [] r = "nfc" ->
                    loc' = [loc EXCEPT !.gsh = NoHash, !.gshAns = r] /\ Return
             [] OTHER -> Abort /\ loc' = [loc EXCEPT !.gshAns = r]
    /\ UNCHANGED <<cfg, reg, arch, pool, mr, result, trace>>

\* ------------------------------------------------------------ wait_for_state
\* (mutant) the wait ends one height early
WaitReadyEarly(latest, height) == latest + 1 >= height

\* (mutant) the height itself does not count as reached
WaitReadyStrict(latest, height) == latest > height

WaitReady(latest, height) == latest >= height

WaitForState ==
    /\ pc = "wait_for_state"
    /\ WaitReady(sm.latest, loc.waitH)
    /\ loc' = [loc EXCEPT !.gshH = loc.waitH]
    /\ Call("get_state_hash", "wfs_assert")
    /\ UNCHANGED <<cfg, reg, arch, pool, sm, mr, result, trace>>

WfsAssert ==
    /\ pc = "wfs_assert"
    /\ IF loc.waitH = sm.latest
       THEN Return /\ Log("waited", loc.waitH)
       ELSE Abort /\ UNCHANGED trace
    /\ UNCHANGED <<cfg, reg, arch, pool, sm, mr, loc, result>>

\* ------------------------------------------ get_latest_state_height_and_hash
GetLatestStateHeightAndHash ==
    /\ pc = "get_latest_state_height_and_hash"
    /\ loc' = [loc EXCEPT !.glshH = sm.latest, !.waitH = sm.latest]
    /\ Call("wait_for_state", "glsh_hash")
    /\ UNCHANGED <<cfg, reg, arch, pool, sm, mr, result, trace>>

\* the pair returned when get_state_hash_at(height) is Ok
ParamsOfState(height) == [h |-> height, d |-> StateDigest(height)]

\* (mutant) the latest state height is kept and paired with the CUP's hash
ParamsOfCupAtLatest(cup) == [h |-> sm.latest, d |-> cup.hash]

\* the pair returned otherwise: the latest CUP's height and state hash
ParamsOfCup(cup) == [h |-> cup.height, d |-> cup.hash]

GlshHash ==
    /\ pc = "glsh_hash"
    /\ \E r \in HashAnswers(loc.glshH) :
        /\ sm' = RecordAnswer(loc.glshH, r)
        /\ IF r = "digest"
           THEN loc' = [loc EXCEPT !.params = ParamsOfState(loc.glshH)] /\ Return
           ELSE IF cfg.hasPool
                THEN loc' = [loc EXCEPT !.params = ParamsOfCup(pool.cup)] /\ Return
                ELSE Abort /\ UNCHANGED loc
    /\ UNCHANGED <<cfg, reg, arch, pool, mr, result, trace>>

\* --------------------------------------------------------- verify_latest_cup
\* (mutant) the genesis CUP is verified like any other
IsGenesisNever(h) == FALSE

IsGenesis(h) == h = 0

\* (mutant) the comparison is also skipped at the CUP's own height
SkipDigestCheckAtCup(cupHeight, latest) == cupHeight <= latest

\* the latest checkpoint is above the latest CUP: hashes are not compared
SkipDigestCheck(cupHeight, latest) == cupHeight < latest

DigestDiffers(local, committed) == local # committed

VerifyLatestCup ==
    /\ pc = "verify_latest_cup"
    /\ IF ~cfg.hasPool
       THEN Abort /\ UNCHANGED <<loc, trace>>
       ELSE IF IsGenesis(pool.cup.height)
            THEN /\ loc' = [loc EXCEPT !.vres = OkUnit]
                 /\ Return
                 /\ Log("verify_Ok", pool.cup.height)
            ELSE /\ Goto("vlc_sig")
                 /\ Log("verify", pool.cup.height)
                 /\ loc' = [loc EXCEPT !.vres = NoRes]
    /\ UNCHANGED <<cfg, reg, arch, pool, sm, mr, result>>

\* (mutant) a signature failure is not fatal
VlcSigIgnored ==
    /\ pc = "vlc_sig"
    /\ \E ok \in BOOLEAN :
        /\ Goto("vlc_latest")
        /\ Log(IF ok THEN "sig_ok" ELSE "sig_failed", pool.cup.height)
    /\ UNCHANGED <<cfg, reg, arch, pool, sm, mr, loc, result>>

VlcSig ==
    /\ pc = "vlc_sig"
    /\ \E ok \in BOOLEAN :
        IF ok
        THEN Goto("vlc_latest") /\ Log("sig_ok", pool.cup.height)
        ELSE Abort /\ Log("sig_failed", pool.cup.height)
    /\ UNCHANGED <<cfg, reg, arch, pool, sm, mr, loc, result>>

VlcLatest ==
    /\ pc = "vlc_latest"
    /\ IF SkipDigestCheck(pool.cup.height, sm.latest)
       THEN /\ loc' = [loc EXCEPT !.vres = OkUnit]
            /\ Return
            /\ Log("verify_Ok", pool.cup.height)
       ELSE /\ loc' = [loc EXCEPT !.gshH = pool.cup.height]
            /\ Call("get_state_hash", "vlc_compare")
            /\ Log("hash", pool.cup.height)
    /\ UNCHANGED <<cfg, reg, arch, pool, sm, mr, result>>

VlcCompare ==
    /\ pc = "vlc_compare"
    /\ IF loc.gsh = NoHash
       THEN Abort /\ UNCHANGED <<loc, trace>>
       ELSE IF DigestDiffers(loc.gsh, pool.cup.hash)
            THEN /\ loc' = [loc EXCEPT !.vres = StateDivergence(pool.cup.height)]
                 /\ Return
                 /\ Log("verify_StateDivergence", pool.cup.height)
            ELSE Goto("vlc_version") /\ UNCHANGED <<loc, trace>>
    /\ UNCHANGED <<cfg, reg, arch, pool, sm, mr, result>>

\* lookup_replica_version at the CUP's registry version: no build recorded,
\* the build that is running, or another build
Builds == {"none", "this", "other"}

\* Some(replica_version) if replica_version != self.replica_version
UpgradeFound(build) == build = "other"

VlcVersion ==
    /\ pc = "vlc_version"
    /\ IF UpgradeFound(reg.cupBuild)
       THEN /\ Call("get_latest_state_height_and_hash", "vlc_upgrade")
            /\ Log("version", pool.cup.height)
            /\ UNCHANGED loc
       ELSE /\ loc' = [loc EXCEPT !.vres = OkUnit]
            /\ Return
            /\ trace' = trace \o <<Ev("version", pool.cup.height),
                                   Ev("verify_Ok", pool.cup.height)>>
    /\ UNCHANGED <<cfg, reg, arch, pool, sm, mr, result>>

VlcUpgrade ==
    /\ pc = "vlc_upgrade"
    /\ loc' = [loc EXCEPT !.vres = UpgradeDetected(loc.params)]
    /\ Return
    /\ Log("verify_UpgradeDetected", pool.cup.height)
    /\ UNCHANGED <<cfg, reg, arch, pool, sm, mr, result>>

\* ----------------------------------------------------------- deliver_batches
\* (mutant) every refusal of the pipeline is fatal
OnRefusalAbort(o) == "abort"

\* what the Player does when the pipeline refuses a batch:
\* Err(QueueIsFull) => sleep(WAIT_DURATION), Err(Ignored) => unreachable!()
OnRefusal(o) == IF o = "full" THEN "retry" ELSE "abort"

\* ic_consensus deliver_batches: min(max_batch_height_to_deliver, finalized)
CdbTarget(maxH, finalized) ==
    Min(IF maxH = NoTarget THEN finalized ELSE maxH, finalized)

\* Player::deliver_batches: (re)enter the consensus delivery function, which
\* starts at the pipeline's expected batch height
DeliverBatches ==
    /\ pc = "deliver_batches"
    /\ loc' = [loc EXCEPT !.cdbH = mr.expected, !.cdbLast = mr.expected - 1]
    /\ Goto("cdb_loop")
    /\ UNCHANGED <<cfg, reg, arch, pool, sm, mr, result, trace>>

\* one round of the consensus delivery loop: hand over the batch of height
\* cdbH, or return the last delivered height
CdbLoop ==
    /\ pc = "cdb_loop"
    /\ IF loc.cdbH <= CdbTarget(loc.maxH, pool.finalized)
       THEN \E o \in DeliverOutcomes(loc.cdbH) :
            CASE o = "ok" ->
                    /\ mr' = Accept(loc.cdbH)
                    /\ loc' = [loc EXCEPT !.cdbLast = loc.cdbH, !.cdbH = loc.cdbH + 1]
                    /\ Goto("cdb_loop")
                    /\ Log("deliver", loc.cdbH)
              [] o # "ok" /\ OnRefusal(o) = "retry" ->
                    \* sleep, then call the delivery function again
                    /\ Goto("deliver_batches")
                    /\ LogFull(loc.cdbH)
                    /\ UNCHANGED <<mr, loc>>
              [] OTHER ->
                    /\ Abort
                    /\ Log(o, loc.cdbH)
                    /\ UNCHANGED <<mr, loc>>
       ELSE /\ loc' = [loc EXCEPT !.lbh = loc.cdbLast]
            /\ Return
            /\ UNCHANGED <<mr, trace>>
    /\ UNCHANGED <<cfg, reg, arch, pool, sm, result>>

\* ------------------------------------------------------- deliver_extra_batch
\* (mutant) the extra batch reuses the number of the last delivered batch
ExtraBatchNumberStale == mr.expected - 1

\* the number of the extra batch
ExtraBatchNumber == mr.expected

\* the registry version the block of height h references
BlockVersion(h) == IF h >= arch.bump THEN reg.initial + 1 ELSE reg.initial

\* the context time of the finalized block of height h: block times increase
\* strictly with the height
BlockTime(h) == 2 * h + 2

\* crypto_hashable_to_seed(block): a seed that is not the all-zero one
BlockSeed(h) == h + 1

\* get_finalized_block(h): None
NoBlock == [height |-> -1, version |-> 0, time |-> 0, seed |-> ZeroSeed]

\* get_finalized_block(h): the block the pool holds at height h, if any
FinalizedBlocks(h) ==
    {[height |-> h, version |-> BlockVersion(h), time |-> BlockTime(h),
      seed |-> BlockSeed(h)]}

\* ic_types::time::current_time()
WallClock == 0..MaxClock

\* (mutant) the fallback values are used with a pool as well
ExtraContextFallback(hasPool, block, latestVersion, now) ==
    [version |-> latestVersion, time |-> now, randomness |-> ZeroSeed]

\* (mutant) the time of the extra batch is the wall-clock time in both modes
ExtraContextWallClock(hasPool, block, latestVersion, now) ==
    IF hasPool
    THEN [version |-> block.version, time |-> now, randomness |-> block.seed]
    ELSE [version |-> latestVersion, time |-> now, randomness |-> ZeroSeed]

\* (registry_version, time, randomness) of the extra batch
ExtraContext(hasPool, block, latestVersion, now) ==
    IF hasPool
    THEN [version |-> block.version, time |-> block.time + 1, randomness |-> block.seed]
    ELSE [version |-> latestVersion, time |-> now, randomness |-> ZeroSeed]

\* Batch { batch_number, registry_version, time, randomness, .. }
ExtraBatch(number, ctx) ==
    [number |-> number, version |-> ctx.version, time |-> ctx.time,
     randomness |-> ctx.randomness]

\* the extra batch is built and the extra function is called; without
\* messages nothing is delivered.  rerun is the batch a second call on the
\* same pool, registry and pipeline builds, at its own wall-clock time.
DeliverExtraBatch ==
    /\ pc = "deliver_extra_batch"
    /\ \E b \in (IF cfg.hasPool THEN FinalizedBlocks(pool.finalized) \cup {NoBlock}
                 ELSE {NoBlock}) :
        IF cfg.hasPool /\ b = NoBlock
        THEN Abort /\ Log("block_missing", pool.finalized) /\ UNCHANGED loc
        ELSE \E n \in 0..MaxExtra, now \in WallClock, again \in WallClock :
            /\ loc' = [loc EXCEPT
                    !.extraH = ExtraBatchNumber, !.extraN = n,
                    !.extraDelivered = FALSE,
                    !.block = b,
                    !.extraBatch = ExtraBatch(ExtraBatchNumber,
                                       ExtraContext(cfg.hasPool, b, reg.latest, now)),
                    !.rerun = ExtraBatch(ExtraBatchNumber,
                                       ExtraContext(cfg.hasPool, b, reg.latest, again))]
            /\ Log("extra_fn", n)
            /\ IF n = 0 THEN Return ELSE Goto("deb_loop")
    /\ UNCHANGED <<cfg, reg, arch, pool, sm, mr, result>>

\* deliver_batch(extra_batch) until it is not refused for a full queue
DebLoop ==
    /\ pc = "deb_loop"
    /\ \E o \in DeliverOutcomes(loc.extraH) :
        CASE o = "ok" ->
                /\ mr' = Accept(loc.extraH)
                /\ loc' = [loc EXCEPT !.extraDelivered = TRUE]
                /\ Return
                /\ Log("deliver", loc.extraH)
          [] o # "ok" /\ OnRefusal(o) = "retry" ->
                \* sleep, then deliver the same batch again
                /\ Goto("deb_loop")
                /\ LogFull(loc.extraH)
                /\ UNCHANGED <<mr, loc>>
          [] OTHER ->
                /\ Abort
                /\ Log(o, loc.extraH)
                /\ UNCHANGED <<mr, loc>>
    /\ UNCHANGED <<cfg, reg, arch, pool, sm, result>>

\* -------------------------------------------------------------------- replay
\* (mutant) the target height is not applied
ClampedTargetFinalized(finalized, target) == finalized

\* min(finalized_height, replay_target_height or finalized_height)
ClampedTarget(finalized, target) ==
    Min(finalized, IF target = NoTarget THEN finalized ELSE target)

\* (mutant) an upgrade is propagated like any other error
ReplayToleratesOnlyOk(r) == r.t = "Ok"

\* the outcomes of the initial verify_latest_cup replay goes on after
ReplayTolerates(r) == r.t \in {"Ok", "UpgradeDetected"}

Replay ==
    /\ pc = "replay"
    /\ IF cfg.hasPool
       THEN Call("verify_latest_cup", "replay_verified")
       ELSE Goto("replay_extra")
    /\ UNCHANGED <<cfg, reg, arch, pool, sm, mr, loc, result, trace>>

ReplayVerified ==
    /\ pc = "replay_verified"
    /\ IF ReplayTolerates(loc.vres)
       THEN /\ loc' = [loc EXCEPT !.maxH = ClampedTarget(pool.finalized, cfg.target)]
            /\ Call("deliver_batches", "replay_wait")
            /\ UNCHANGED result
       ELSE /\ result' = loc.vres
            /\ pc' = "done"
            /\ stack' = <<>>
            /\ UNCHANGED loc
    /\ UNCHANGED <<cfg, reg, arch, pool, sm, mr, trace>>

\* (mutant) the wait is for the height the state manager started with
ReplayWaitStale ==
    /\ pc = "replay_wait"
    /\ loc' = [loc EXCEPT !.waitH = cfg.latest0]
    /\ Call("wait_for_state", "replay_prune")
    /\ UNCHANGED <<cfg, reg, arch, pool, sm, mr, result, trace>>

ReplayWait ==
    /\ pc = "replay_wait"
    /\ loc' = [loc EXCEPT !.waitH = loc.lbh]
    /\ Call("wait_for_state", "replay_prune")
    /\ UNCHANGED <<cfg, reg, arch, pool, sm, mr, result, trace>>

\* remove_states_below(last_batch_height), then read the certified heights
ReplayPrune ==
    /\ pc = "replay_prune"
    /\ sm' = RemoveStatesBelow(sm, loc.lbh)
    /\ Log("prune", loc.lbh)
    /\ \E lo \in 1..(pool.finalized + 1) :
        loc' = [loc EXCEPT !.certTodo = lo..pool.finalized,
                           !.certified = lo..pool.finalized]
    /\ Goto("replay_certs")
    /\ UNCHANGED <<cfg, reg, arch, pool, mr, result>>

\* certified_heights() yields the certified heights in ascending order
NextCertified(todo) == CHOOSE h \in todo : \A x \in todo : h <= x

\* (mutant) a certified height without a certification record is skipped
ReplayCertsSkipMissing ==
    /\ pc = "replay_certs"
    /\ IF loc.certTodo = {}
       THEN Goto("replay_extra") /\ UNCHANGED <<loc, trace>>
       ELSE LET h == NextCertified(loc.certTodo) IN
            \E found \in BOOLEAN :
                /\ loc' = [loc EXCEPT !.certTodo = @ \ {h}]
                /\ Goto("replay_certs")
                /\ Log(IF found THEN "certification" ELSE "certification_missing", h)
    /\ UNCHANGED <<cfg, reg, arch, pool, sm, mr, result>>

\* redeliver the certification of the next certified height, or go on
ReplayCerts ==
    /\ pc = "replay_certs"
    /\ IF loc.certTodo = {}
       THEN Goto("replay_extra") /\ UNCHANGED <<loc, trace>>
       ELSE LET h == NextCertified(loc.certTodo) IN
            \E found \in BOOLEAN :
                IF found
                THEN /\ loc' = [loc EXCEPT !.certTodo = @ \ {h}]
                     /\ Goto("replay_certs")
                     /\ Log("certification", h)
                ELSE Abort /\ Log("certification_missing", h) /\ UNCHANGED loc
    /\ UNCHANGED <<cfg, reg, arch, pool, sm, mr, result>>

ReplayExtra ==
    /\ pc = "replay_extra"
    /\ Call("deliver_extra_batch", "replay_extra_delivered")
    /\ UNCHANGED <<cfg, reg, arch, pool, sm, mr, loc, result, trace>>

\* (mutant) the state of the extra batch is awaited whether or not one was
\* delivered
ReplayExtraDeliveredAlways ==
    /\ pc = "replay_extra_delivered"
    /\ loc' = [loc EXCEPT !.lbh = loc.extraH, !.waitH = loc.extraH]
    /\ Call("wait_for_state", "replay_extra_prune")
    /\ UNCHANGED <<cfg, reg, arch, pool, sm, mr, result, trace>>

ReplayExtraDelivered ==
    /\ pc = "replay_extra_delivered"
    /\ IF loc.extraDelivered
       THEN /\ loc' = [loc EXCEPT !.lbh = loc.extraH, !.waitH = loc.extraH]
            /\ Call("wait_for_state", "replay_extra_prune")
       ELSE Goto("replay_final") /\ UNCHANGED loc
    /\ UNCHANGED <<cfg, reg, arch, pool, sm, mr, result, trace>>

\* (mutant) the states below the extra batch are kept
ReplayExtraPruneSkipped ==
    /\ pc = "replay_extra_prune"
    /\ Goto("replay_status")
    /\ UNCHANGED <<cfg, reg, arch, pool, sm, mr, loc, result, trace>>

ReplayExtraPrune ==
    /\ pc = "replay_extra_prune"
    /\ sm' = RemoveStatesBelow(sm, loc.lbh)
    /\ Log("prune", loc.lbh)
    /\ Goto("replay_status")
    /\ UNCHANGED <<cfg, reg, arch, pool, mr, loc, result>>

IngressStatuses ==
    {"Reply", "Reject", "Failed", "Unknown", "Received", "Processing"}

\* (mutant) any completed message is accepted, rejected ones included
StatusAcceptedCompleted(st) == st \in {"Reply", "Reject"}

\* IngressState::Completed(WasmResult::Reply(_))
StatusAccepted(st) == st = "Reply"

\* the latest status of the next injected message
ReplayStatus ==
    /\ pc = "replay_status"
    /\ IF loc.extraN = 0
       THEN Goto("replay_final") /\ UNCHANGED <<loc, trace>>
       ELSE \E st \in IngressStatuses :
            IF StatusAccepted(st)
            THEN /\ loc' = [loc EXCEPT !.extraN = @ - 1]
                 /\ Goto("replay_status")
                 /\ Log(st, loc.extraN)
            ELSE Abort /\ Log(st, loc.extraN) /\ UNCHANGED loc
    /\ UNCHANGED <<cfg, reg, arch, pool, sm, mr, result>>

ReplayFinal ==
    /\ pc = "replay_final"
    /\ Call("get_latest_state_height_and_hash", "replay_return")
    /\ UNCHANGED <<cfg, reg, arch, pool, sm, mr, loc, result, trace>>

ReplayReturn ==
    /\ pc = "replay_return"
    /\ result' = OkParams(loc.params)
    /\ pc' = "done"
    /\ stack' = <<>>
    /\ UNCHANGED <<cfg, reg, arch, pool, sm, mr, loc, trace>>

\* -------------------------------------------------------------- backup spool
\* the certified height the archived block of height h references
CertifiedRef(h) == IF arch.certified THEN h - 1 ELSE 0

Lowest(S) == CHOOSE h \in S : \A x \in S : h <= x

\* backup::deserialize_consensus_artifacts: ingest archived heights in
\* ascending order until an exit point is hit
RECURSIVE Ingest(_, _, _, _)
Ingest(remaining, finalized, version, latest) ==
    IF remaining = {}
    THEN [exit |-> "Done", h |-> 0, remaining |-> remaining, finalized |-> finalized]
    ELSE LET h == Lowest(remaining) IN
         IF BlockVersion(h) > version
         THEN [exit |-> "NewerRegistryVersion", h |-> BlockVersion(h),
               remaining |-> remaining, finalized |-> finalized]
         ELSE IF CertifiedRef(h) > latest
         THEN [exit |-> "StateBehind", h |-> CertifiedRef(h),
               remaining |-> remaining, finalized |-> finalized]
         ELSE IF h \in arch.cups
         THEN [exit |-> "CUPHeightWasFinalized", h |-> h,
               remaining |-> remaining \ {h}, finalized |-> h]
         ELSE Ingest(remaining \ {h}, h, version, latest)

\* ------------------------------------------------------------------- restore
\* (mutant) the target height must be exceeded
TargetReachedStrict(target, lastBatchHeight) ==
    target # NoTarget /\ lastBatchHeight > target

\* the target height has been reached by the last delivered batch
TargetReached(target, lastBatchHeight) ==
    target # NoTarget /\ lastBatchHeight >= target

\* (mutant) the version the registry client reached is not checked
RegistryCaughtUpAlways(latest, newVersion) == TRUE

\* (mutant) a registry client one version behind is accepted
RegistryCaughtUpLenient(latest, newVersion) == latest + 1 >= newVersion

\* assert!(self.registry.get_latest_version() >= new_version)
RegistryCaughtUp(latest, newVersion) == latest >= newVersion

\* (mutant) the state at the certified height is removed as well
StateBehindArmInclusive(certifiedHeight) ==
    IF certifiedHeight <= sm.latest
    THEN /\ sm' = RemoveStatesBelow(sm, certifiedHeight + 1)
         /\ Log("prune", certifiedHeight)
         /\ Goto("restore_ingest")
    ELSE Abort /\ UNCHANGED <<sm, trace>>

\* ExitPoint::StateBehind(certified_height): assert the state manager has
\* caught up with it, then remove the states below it
StateBehindArm(certifiedHeight) ==
    IF certifiedHeight <= sm.latest
    THEN /\ sm' = RemoveStatesBelow(sm, certifiedHeight)
         /\ Log("prune", certifiedHeight)
         /\ Goto("restore_ingest")
    ELSE Abort /\ UNCHANGED <<sm, trace>>

Restore ==
    /\ pc = "restore"
    /\ Call("verify_latest_cup", "restore_verified")
    /\ UNCHANGED <<cfg, reg, arch, pool, sm, mr, loc, result, trace>>

\* (mutant) the outcome of the initial verification is dropped
RestoreVerifiedIgnored ==
    /\ pc = "restore_verified"
    /\ Goto("restore_ingest")
    /\ UNCHANGED <<cfg, reg, arch, pool, sm, mr, loc, result, trace>>

RestoreVerified ==
    /\ pc = "restore_verified"
    /\ IF loc.vres.t = "Ok"
       THEN Goto("restore_ingest") /\ UNCHANGED result
       ELSE result' = loc.vres /\ pc' = "done" /\ stack' = <<>>
    /\ UNCHANGED <<cfg, reg, arch, pool, sm, mr, loc, trace>>

\* (mutant) the delivery after an ingestion step is not given the target
RestoreIngestUnclamped ==
    /\ pc = "restore_ingest"
    /\ LET r == Ingest(arch.remaining, pool.finalized, reg.latest, sm.latest) IN
        /\ arch' = [arch EXCEPT !.remaining = r.remaining]
        /\ pool' = [pool EXCEPT !.finalized = r.finalized]
        /\ loc' = [loc EXCEPT !.exit = [t |-> r.exit, h |-> r.h],
                              !.maxH = NoTarget]
        /\ Log("ingest", r.finalized)
    /\ Call("deliver_batches", "restore_wait")
    /\ UNCHANGED <<cfg, reg, sm, mr, result>>

\* one ingestion step, then deliver the batches it made reachable
RestoreIngest ==
    /\ pc = "restore_ingest"
    /\ LET r == Ingest(arch.remaining, pool.finalized, reg.latest, sm.latest) IN
        /\ arch' = [arch EXCEPT !.remaining = r.remaining]
        /\ pool' = [pool EXCEPT !.finalized = r.finalized]
        /\ loc' = [loc EXCEPT !.exit = [t |-> r.exit, h |-> r.h],
                              !.maxH = cfg.target]
        /\ Log("ingest", r.finalized)
    /\ Call("deliver_batches", "restore_wait")
    /\ UNCHANGED <<cfg, reg, sm, mr, result>>

\* (mutant) the exit point is acted upon without waiting for the state
RestoreWaitSkipped ==
    /\ pc = "restore_wait"
    /\ Goto("restore_target")
    /\ UNCHANGED <<cfg, reg, arch, pool, sm, mr, loc, result, trace>>

RestoreWait ==
    /\ pc = "restore_wait"
    /\ loc' = [loc EXCEPT !.waitH = loc.lbh]
    /\ Call("wait_for_state", "restore_target")
    /\ UNCHANGED <<cfg, reg, arch, pool, sm, mr, result, trace>>

RestoreTarget ==
    /\ pc = "restore_target"
    /\ IF TargetReached(cfg.target, loc.lbh)
       THEN Call("get_latest_state_height_and_hash", "restore_return")
       ELSE Goto("restore_exit")
    /\ UNCHANGED <<cfg, reg, arch, pool, sm, mr, loc, result, trace>>

\* act on the exit point of the last ingestion step
RestoreExit ==
    /\ pc = "restore_exit"
    /\ CASE loc.exit.t = "CUPHeightWasFinalized" ->
            \* backup::insert_cup_at_height, then assert_consistency_and_clean_up
            /\ \E d \in {StateDigest(loc.exit.h), ForeignDigest}, b \in Builds :
                /\ pool' = [pool EXCEPT !.cup = [height |-> loc.exit.h, hash |-> d]]
                /\ reg' = [reg EXCEPT !.cupBuild = b]
            /\ Log("insert_cup", loc.exit.h)
            /\ Call("verify_latest_cup", "cleanup_verified")
            /\ UNCHANGED sm
         [] loc.exit.t = "NewerRegistryVersion" ->
            \* update_registry_local_store, poll_once, assert
            /\ \E v \in reg.latest..MaxVersion :
                /\ reg' = [reg EXCEPT !.latest = v]
                /\ Log("registry", v)
                /\ IF RegistryCaughtUp(v, loc.exit.h)
                   THEN Goto("restore_ingest") ELSE Abort
            /\ UNCHANGED <<pool, sm>>
         [] loc.exit.t = "StateBehind" ->
            /\ StateBehindArm(loc.exit.h)
            /\ UNCHANGED <<reg, pool>>
         [] OTHER ->
            /\ Call("get_latest_state_height_and_hash", "restore_return")
            /\ UNCHANGED <<reg, pool, sm, trace>>
    /\ UNCHANGED <<cfg, arch, mr, loc, result>>

\* (mutant) the clean-up goes on whatever the verification returned
CleanupVerifiedIgnored ==
    /\ pc = "cleanup_verified"
    /\ Call("get_latest_state_height_and_hash", "cleanup_purge")
    /\ UNCHANGED <<cfg, reg, arch, pool, sm, mr, loc, result, trace>>

\* assert_consistency_and_clean_up after verify_latest_cup
CleanupVerified ==
    /\ pc = "cleanup_verified"
    /\ IF loc.vres.t = "Ok"
       THEN Call("get_latest_state_height_and_hash", "cleanup_purge")
            /\ UNCHANGED result
       ELSE result' = loc.vres /\ pc' = "done" /\ stack' = <<>>
    /\ UNCHANGED <<cfg, reg, arch, pool, sm, mr, loc, trace>>

\* remove_states_below and PurgeValidatedBelow at the height of the pool's CUP
CleanupPurge ==
    /\ pc = "cleanup_purge"
    /\ sm' = RemoveStatesBelow(sm, pool.cup.height)
    /\ pool' = [pool EXCEPT !.low = pool.cup.height]
    /\ trace' = trace \o <<Ev("prune", pool.cup.height), Ev("purge_pool", pool.cup.height)>>
    /\ Goto("restore_ingest")
    /\ UNCHANGED <<cfg, reg, arch, mr, loc, result>>

RestoreReturn ==
    /\ pc = "restore_return"
    /\ result' = OkParams(loc.params)
    /\ pc' = "done"
    /\ stack' = <<>>
    /\ UNCHANGED <<cfg, reg, arch, pool, sm, mr, loc, trace>>

\* ---------------------------------------------------------------------- Init
InitLoc ==
    [gshH |-> 0, gsh |-> NoHash, gshAns |-> "none", waitH |-> 0, glshH |-> 0,
     params |-> [h |-> 0, d |-> 0], vres |-> NoRes, maxH |-> NoTarget,
     cdbH |-> 0, cdbLast |-> 0, lbh |-> 0, extraH |-> 0, extraN |-> 0,
     extraDelivered |-> FALSE, block |-> NoBlock,
     extraBatch |-> ExtraBatch(0, ExtraContext(FALSE, NoBlock, 0, 0)),
     rerun |-> ExtraBatch(0, ExtraContext(FALSE, NoBlock, 0, 0)),
     certTodo |-> {}, certified |-> {}, exit |-> [t |-> "none", h |-> 0]]

Targets == {NoTarget} \cup 0..MaxHeight

\* the state manager as constructed: the latest state and the states it keeps
InitSM ==
    {[latest |-> l, states |-> 0..l, hash |-> [h \in Heights |-> "unknown"]] :
        l \in 0..MaxHeight}

InitMR(s) == [expected |-> s.latest + 1, queue |-> <<>>]

NoArchive ==
    [remaining |-> {}, cups |-> {}, bump |-> MaxHeight + 2, certified |-> FALSE]

\* Player::new without a consensus pool on disk
InitNoPool ==
    /\ pool = [present |-> FALSE, finalized |-> 0,
               cup |-> [height |-> 0, hash |-> StateDigest(0)], low |-> 0]
    /\ reg = [initial |-> 1, latest |-> 1, cupBuild |-> "none"]
    /\ arch = NoArchive
    /\ pc = "replay"

\* Player::new on a populated pool: finalized height >= highest CUP height;
\* the registry client is ahead of the version the finalized blocks reference
InitWithPool ==
    /\ \E f \in 0..MaxHeight :
        \E c \in 0..f, d \in {0, 1} :
            pool = [present |-> TRUE, finalized |-> f,
                    cup |-> [height |-> c,
                             hash |-> IF d = 0 THEN StateDigest(c) ELSE ForeignDigest],
                    low |-> c]
    /\ \E b \in Builds : reg = [initial |-> 1, latest |-> 2, cupBuild |-> b]
    /\ arch = NoArchive
    /\ pc = "replay"

\* Player::new_for_backup: a fresh pool holding the CUP of the start height;
\* the spool holds the heights above it, with a CUP every k heights
InitBackup ==
    /\ \E c \in 0..MaxHeight, d \in {0, 1} :
        /\ pool = [present |-> TRUE, finalized |-> c,
                   cup |-> [height |-> c,
                            hash |-> IF d = 0 THEN StateDigest(c) ELSE ForeignDigest],
                   low |-> c]
        /\ \E k \in 1..(MaxHeight + 1),
              b \in ((c + 1)..MaxHeight) \cup {MaxHeight + 2},
              cert \in BOOLEAN :
            arch = [remaining |-> (c + 1)..MaxHeight,
                    cups |-> {h \in (c + 1)..MaxHeight : h % k = 0},
                    bump |-> b, certified |-> cert]
    /\ \E b \in Builds : reg = [initial |-> 1, latest |-> 1, cupBuild |-> b]
    /\ pc = "restore"

Init ==
    /\ InitNoPool \/ InitWithPool \/ InitBackup
    /\ sm \in InitSM
    /\ mr = InitMR(sm)
    /\ \E t \in Targets :
        cfg = [op |-> pc, hasPool |-> pool.present, target |-> t,
               pool0 |-> pool, latest0 |-> sm.latest, states0 |-> sm.states,
               expected0 |-> mr.expected]
    /\ stack = <<>>
    /\ loc = InitLoc
    /\ result = NoRes
    /\ trace = <<>>

Next ==
    \/ SMExecute
    \/ GetStateHash
    \/ WaitForState
    \/ WfsAssert
    \/ GetLatestStateHeightAndHash
    \/ GlshHash
    \/ VerifyLatestCup
    \/ VlcSig
    \/ VlcLatest
    \/ VlcCompare
    \/ VlcVersion
    \/ VlcUpgrade
    \/ DeliverBatches
    \/ CdbLoop
    \/ DeliverExtraBatch
    \/ DebLoop
    \/ Replay
    \/ ReplayVerified
    \/ ReplayWait
    \/ ReplayPrune
    \/ ReplayCerts
    \/ ReplayExtra
    \/ ReplayExtraDelivered
    \/ ReplayExtraPrune
    \/ ReplayStatus
    \/ ReplayFinal
    \/ ReplayReturn
    \/ Restore
    \/ RestoreVerified
    \/ RestoreIngest
    \/ RestoreWait
    \/ RestoreTarget
    \/ RestoreExit
    \/ CleanupVerified
    \/ CleanupPurge
    \/ RestoreReturn

Spec == Init /\ [][Next]_vars

\* the steps of the Player's own thread
PlayerNext ==
    \/ GetStateHash
    \/ WaitForState
    \/ WfsAssert
    \/ GetLatestStateHeightAndHash
    \/ GlshHash
    \/ VerifyLatestCup
    \/ VlcSig
    \/ VlcLatest
    \/ VlcCompare
    \/ VlcVersion
    \/ VlcUpgrade
    \/ DeliverBatches
    \/ CdbLoop
    \/ DeliverExtraBatch
    \/ DebLoop
    \/ Replay
    \/ ReplayVerified
    \/ ReplayWait
    \/ ReplayPrune
    \/ ReplayCerts
    \/ ReplayExtra
    \/ ReplayExtraDelivered
    \/ ReplayExtraPrune
    \/ ReplayStatus
    \/ ReplayFinal
    \/ ReplayReturn
    \/ Restore
    \/ RestoreVerified
    \/ RestoreIngest
    \/ RestoreWait
    \/ RestoreTarget
    \/ RestoreExit
    \/ CleanupVerified
    \/ CleanupPurge
    \/ RestoreReturn

\* The Player's thread keeps running (its loops only sleep for WAIT_DURATION),
\* and the state manager keeps executing the batches queued for it.
FairSpec == Spec /\ WF_vars(PlayerNext) /\ WF_vars(SMExecute)

\* ==================================================================== claims
Last == trace[Len(trace)]

Earlier == 1..(Len(trace) - 1)

Happened(e) == \E i \in DOMAIN trace : trace[i].e = e

\* a batch is handed over when deliver_batch is called and not refused for a
\* full queue
IsHanded(ev) == ev.e \in {"deliver", "ignored"}

DeliveredHeights == {trace[i].h : i \in {j \in DOMAIN trace : trace[j].e = "deliver"}}

\* the position of the call of the extra function, or past the end
ExtraAt ==
    IF Happened("extra_fn")
    THEN CHOOSE i \in DOMAIN trace : trace[i].e = "extra_fn"
    ELSE Len(trace) + 1

\* C1: within one replay call the batches are handed to the pipeline in
\* strictly ascending height order, finalized batches and the extra batch
\* alike, and no height is handed over twice.
C1_AscendingHandover ==
    (cfg.op = "replay" /\ trace # <<>> /\ IsHanded(Last)) =>
        \A i \in Earlier : IsHanded(trace[i]) => trace[i].h < Last.h

C1_Witness ==
    /\ cfg.op = "replay"
    /\ result.t = "Ok"
    /\ loc.extraDelivered
    /\ Cardinality(DeliveredHeights) >= 3

\* the ceiling of the finalized-batch delivery of replay
Ceiling ==
    IF cfg.target = NoTarget \/ cfg.target > pool.finalized
    THEN pool.finalized ELSE cfg.target

\* C2 (as claimed): with a pool, replay hands over no batch above
\* min(finalized_height, replay_target_height) when a target is set, and
\* without a target the highest batch handed over is exactly finalized_height.
C2_NeverAboveCeiling ==
    (cfg.op = "replay" /\ cfg.hasPool) =>
        /\ cfg.target # NoTarget => \A h \in DeliveredHeights : h <= Ceiling
        /\ (cfg.target = NoTarget /\ result.t = "Ok" /\ DeliveredHeights # {}) =>
                /\ pool.finalized \in DeliveredHeights
                /\ \A h \in DeliveredHeights : h <= pool.finalized

\* C2 (amended): with a pool, the finalized-batch delivery of replay hands over
\* no batch above min(finalized_height, replay_target_height), or above
\* finalized_height without a target, and once it has returned the pipeline has
\* been handed every height up to that ceiling; the extra batch, when extra
\* messages are supplied, is handed over above the ceiling.
C2_FinalizedDeliveryClamped ==
    (cfg.op = "replay" /\ cfg.hasPool) =>
        /\ \A i \in DOMAIN trace :
            (trace[i].e = "deliver" /\ i < ExtraAt) => trace[i].h <= Ceiling
        /\ Happened("prune") => mr.expected > Ceiling
        /\ \A i \in DOMAIN trace :
            (trace[i].e = "deliver" /\ i > ExtraAt) => trace[i].h > Ceiling

C2_Witness ==
    /\ cfg.op = "replay"
    /\ cfg.hasPool
    /\ cfg.target # NoTarget
    /\ cfg.target < pool.finalized
    /\ result.t = "Ok"
    /\ loc.extraDelivered
    /\ \E i \in DOMAIN trace : trace[i] = Ev("deliver", cfg.target)

\* the return paths the claim C3 names
PrunedPath ==
    \/ cfg.op = "restore"
    \/ cfg.op = "replay" /\ (cfg.hasPool \/ loc.extraDelivered)

PrunedBelowLast ==
    /\ \E i \in DOMAIN trace : trace[i] = Ev("prune", loc.lbh)
    /\ \A x \in sm.states : x >= loc.lbh

AfterVerify == pc \in {"replay_verified", "restore_verified", "cleanup_verified"}

\* C4: for a non-genesis latest CUP at height h, verify_latest_cup returns
\* StateDivergence(h) if and only if the local digest at h differs from the
\* CUP's digest and the latest state height does not exceed h.
C4_DivergenceIff ==
    (AfterVerify /\ pool.cup.height # 0) =>
        /\ loc.vres.t = "StateDivergence" <=>
                (/\ StateDigest(pool.cup.height) # pool.cup.hash
                 /\ sm.latest <= pool.cup.height)
        /\ loc.vres.t = "StateDivergence" => loc.vres.h = pool.cup.height

C4_Witness ==
    /\ AfterVerify
    /\ pool.cup.height # 0
    /\ loc.vres = StateDivergence(pool.cup.height)
    /\ sm.latest = pool.cup.height

\* the calls verify_latest_cup makes for a CUP that is not the genesis CUP
LookupEvents == {"verify", "sig_ok", "sig_failed", "hash", "version"}

\* C5: when the latest CUP has height 0, verify_latest_cup returns Ok without
\* any signature verification, state-digest lookup or replica-version lookup,
\* whatever the state manager and the registry contain.
C5_GenesisOk ==
    /\ (AfterVerify /\ pool.cup.height = 0) =>
            (loc.vres = OkUnit /\ trace # <<>> /\ Last = Ev("verify_Ok", 0))
    /\ (trace # <<>> /\ Last.e \in LookupEvents) => Last.h # 0

C5_Witness ==
    /\ AfterVerify
    /\ pool.cup.height = 0
    /\ pool.cup.hash = ForeignDigest
    /\ reg.cupBuild = "other"
    /\ sm.latest > 0
    /\ loc.vres = OkUnit

\* C6 (as claimed): for a non-genesis CUP whose signature verifies and for which
\* no state divergence is reported, verify_latest_cup returns UpgradeDetected
\* whenever the registry records another build at the CUP's registry version,
\* also when the latest state height is above the CUP height.
C6_UpgradeWheneverBuildDiffers ==
    (/\ AfterVerify
     /\ pool.cup.height # 0
     /\ loc.vres.t # "StateDivergence"
     /\ reg.cupBuild = "other") => loc.vres.t = "UpgradeDetected"

\* C7: for a non-genesis CUP the threshold signature is checked before any
\* state-digest comparison or replica-version lookup, and a signature failure
\* aborts the process: it is never reported as Ok, StateDivergence or
\* UpgradeDetected.
C7_SignatureFirst ==
    trace # <<>> =>
        /\ \A j \in DOMAIN trace : trace[j].e \in {"hash", "version"} =>
                \E i \in 1..(j - 1) :
                    /\ trace[i] = Ev("sig_ok", trace[j].h)
                    /\ \A k \in (i + 1)..j :
                        trace[k].e \notin {"verify", "verify_Ok", "sig_failed"}
        /\ Happened("sig_failed") =>
                /\ Last.e = "sig_failed"
                /\ pc = "aborted"
                /\ result = NoRes
                /\ loc.vres = NoRes

C7_Witness ==
    /\ trace # <<>>
    /\ Last.e = "sig_failed"
    /\ pc = "aborted"
    /\ StateDigest(pool.cup.height) # pool.cup.hash

ReplayActs == {"deliver", "ignored", "prune", "certification", "extra_fn"}

\* C8: in replay with a pool an UpgradeDetected outcome of the initial
\* verify_latest_cup is tolerated (replay goes on to the batch delivery and
\* never returns UpgradeDetected), whereas StateDivergence makes replay return
\* Err(StateDivergence(h)) before any batch is delivered, any state pruned, any
\* certification redelivered or the extra function invoked.
C8_ReplayToleratesUpgrade ==
    cfg.op = "replay" =>
        /\ result.t # "UpgradeDetected"
        /\ (Happened("verify_UpgradeDetected") /\ pc = "done") =>
                (result.t = "Ok" /\ Happened("prune"))
        /\ (Happened("verify_UpgradeDetected") /\ pc = "deliver_batches") =>
                loc.maxH = Ceiling
        /\ Happened("verify_StateDivergence") =>
                /\ pc \in {"replay_verified", "done"}
                /\ pc = "done" => result = StateDivergence(pool.cup.height)
                /\ \A i \in DOMAIN trace : trace[i].e \notin ReplayActs
                /\ mr.expected = cfg.expected0
                /\ sm.states = cfg.states0

C8_Witness ==
    /\ cfg.op = "replay"
    /\ Happened("verify_UpgradeDetected")
    /\ result.t = "Ok"
    /\ Cardinality(DeliveredHeights) >= 2

VerifyOutcomes == {"verify_Ok", "verify_StateDivergence", "verify_UpgradeDetected"}

\* the outcome of the first verify_latest_cup of the call, if it has returned
FirstOutcome ==
    IF \E i \in DOMAIN trace : trace[i].e \in VerifyOutcomes
    THEN LET i == CHOOSE i \in DOMAIN trace :
                    /\ trace[i].e \in VerifyOutcomes
                    /\ \A k \in 1..(i - 1) : trace[k].e \notin VerifyOutcomes
         IN trace[i].e
    ELSE "none"

Untouched ==
    /\ pool = cfg.pool0
    /\ sm.latest = cfg.latest0
    /\ sm.states = cfg.states0
    /\ mr.expected = cfg.expected0
    /\ mr.queue = <<>>

\* C9: restore ingests no archived artifact and delivers no batch before the
\* initial verify_latest_cup has returned Ok; if that check yields
\* StateDivergence or UpgradeDetected, restore returns that error with the pool
\* and the state manager unchanged.
C9_RestoreVerifiesFirst ==
    cfg.op = "restore" =>
        /\ (trace # <<>> /\ Last.e \in {"ingest", "deliver", "ignored", "insert_cup"}) =>
                FirstOutcome = "verify_Ok"
        /\ FirstOutcome = "none" => Untouched
        /\ FirstOutcome \in {"verify_StateDivergence", "verify_UpgradeDetected"} =>
                /\ Untouched
                /\ pc \in {"restore_verified", "done"}
                /\ pc = "done" => (result = loc.vres /\ result.t \notin {"Ok", "none"})

C9_Witness ==
    /\ cfg.op = "restore"
    /\ result.t = "UpgradeDetected"
    /\ arch.remaining # {}
    /\ Untouched

ActsOnExit == {"ingest", "insert_cup", "registry", "prune", "purge_pool"}

\* after an ingestion step, the wait for the last delivered height has shown
\* the target height reached
TargetWasReached ==
    \E j \in DOMAIN trace :
        /\ trace[j].e = "ingest"
        /\ \E i \in DOMAIN trace :
            i > j /\ trace[i].e = "waited" /\ trace[i].h >= cfg.target

NoStepAfterTarget ==
    /\ (trace # <<>> /\ Last.e \in ActsOnExit) =>
            \A j \in Earlier : trace[j].e = "ingest" =>
                \A i \in Earlier :
                    ~(i > j /\ trace[i].e = "waited" /\ trace[i].h >= cfg.target)
    /\ (TargetWasReached /\ pc = "done") => result.t = "Ok"

\* C10 (as claimed): with a target height T below the archive's maximum
\* height, restore returns Ok as soon as the last delivered batch height
\* reaches T, performs no further ingestion step and does not act on the
\* pending exit point, and no archived artifact above what is needed to reach T
\* is ingested.
C10_NothingAboveTargetIngested ==
    (cfg.op = "restore" /\ cfg.target # NoTarget /\ cfg.target < MaxHeight) =>
        /\ NoStepAfterTarget
        /\ (TargetWasReached /\ result.t = "Ok" /\ cfg.target \in DeliveredHeights) =>
                pool.finalized <= cfg.target

\* C10 (amended): with a target height T below the archive's maximum height,
\* restore returns Ok as soon as the last delivered batch height reaches T:
\* after the delivery that reaches T no further ingestion step is performed and
\* the pending exit point is not acted upon.  The ingestion step that precedes
\* that delivery is not bounded by T and may have ingested heights above T;
\* only their delivery is clamped.
C10_ReturnsAtTarget ==
    (cfg.op = "restore" /\ cfg.target # NoTarget /\ cfg.target < MaxHeight) =>
        /\ NoStepAfterTarget
        /\ \A h \in DeliveredHeights : h <= cfg.target

C10_Witness ==
    /\ cfg.op = "restore"
    /\ cfg.target # NoTarget
    /\ cfg.target < MaxHeight
    /\ cfg.target \in DeliveredHeights
    /\ result.t = "Ok"
    /\ loc.exit.t = "CUPHeightWasFinalized"
    /\ pool.finalized > cfg.target
    /\ pool.cup = cfg.pool0.cup

\* ----------------------------------------------------------------------- C11
\* the highest height of the archive
ArchiveTop == MaxHeight

\* restore from start height 0 on a fresh state manager, no target, an archive
\* whose only CUP is the one of height 0
C11Scenario ==
    /\ cfg.op = "restore"
    /\ cfg.target = NoTarget
    /\ cfg.pool0.cup.height = 0
    /\ cfg.latest0 = 0
    /\ arch.cups = {}

C11Returned ==
    /\ pc = "done"
    /\ result = OkParams([h |-> ArchiveTop, d |-> StateDigest(ArchiveTop)])
    /\ loc.exit.t = "Done"
    /\ DeliveredHeights = 1..ArchiveTop

\* a collaborator failed: the state manager answered a hash request with a
\* fatal error or has no digest for the top height, or the registry could not
\* be brought to the version an archived block references
CollaboratorFailed ==
    \/ pc = "aborted" /\ \E h \in Heights : sm.hash[h] \in {"perm", "nfcOther"}
    \/ sm.hash[ArchiveTop] = "nfc"
    \/ pc = "aborted" /\ trace # <<>> /\ Last.e \in {"registry", "ignored"}

StatusEvents == {j \in DOMAIN trace : trace[j].e \in IngressStatuses}

\* the number of messages the extra function supplied
Injected ==
    IF \E j \in DOMAIN trace : trace[j].e = "extra_fn"
    THEN (CHOOSE ev \in {trace[j] : j \in DOMAIN trace} : ev.e = "extra_fn").h
    ELSE 0

\* C12: when replay delivers an extra batch with injected messages it returns
\* a result only if the latest status of every injected message is Completed
\* with a Reply; as soon as one message has any other status the process is
\* aborted and replay returns neither Ok nor a ReplayError.
C12_ReplyOrAbort ==
    /\ (pc = "done" /\ cfg.op = "replay" /\ Injected > 0) =>
            /\ Cardinality(StatusEvents) = Injected
            /\ \A j \in StatusEvents : trace[j].e = "Reply"
    /\ (\E j \in StatusEvents : trace[j].e # "Reply") =>
            pc = "aborted" /\ result = NoRes

C12_Witness ==
    /\ pc = "aborted"
    /\ Injected > 0
    /\ loc.extraDelivered
    /\ trace # <<>>
    /\ Last.e = "Reject"

\* ========================================= update_registry_local_store
\* The registry canister's answer to get_changes_since(latest_version): an
\* error, or records of versions above latest_version in any order.
Keys == {"k1", "k2"}

RecordsUpTo(latest, n) ==
    UNION {[1..m -> [version : (latest + 1)..(latest + MaxVersion), key : Keys]] :
                m \in 0..n}

\* (mutant) the records are taken in the order reported
Unsorted(records) == records

\* records.sort_by_key(|tr| tr.version): a stable sort
RECURSIVE SortByVersion(_)
SortByVersion(records) ==
    IF records = <<>> THEN <<>>
    ELSE LET r == Head(records)
             rest == SortByVersion(Tail(records))
             k == Cardinality({i \in DOMAIN rest : rest[i].version < r.version})
         IN SubSeq(rest, 1, k) \o <<r>> \o SubSeq(rest, k + 1, Len(rest))

\* one step of the fold that builds the changelog
FoldRecord(cl, r, latest) ==
    LET relVersion == r.version - latest
        grown == IF Len(cl) < relVersion THEN Append(cl, <<>>) ELSE cl
    IN [grown EXCEPT ![Len(grown)] = Append(@, r.key)]

StoreFixed ==
    /\ cfg = [op |-> "update_registry_local_store", hasPool |-> FALSE,
              target |-> NoTarget]
    /\ pool = [present |-> FALSE]
    /\ sm = [latest |-> 0]
    /\ mr = [queue |-> <<>>]
    /\ arch = NoArchive
    /\ stack = <<>>
    /\ result = NoRes
    /\ trace = <<>>

StoreInit ==
    /\ StoreFixed
    /\ \E l \in 0..1 :
        \E ok \in BOOLEAN, recs \in RecordsUpTo(l, MaxRecords) :
            /\ ok \/ recs = <<>>
            /\ reg = [latest |-> l, answered |-> ok, canister |-> recs, store |-> <<>>]
    /\ loc = [latestVersion |-> 0, records |-> <<>>, changelog |-> <<>>, i |-> 0]
    /\ pc = "update_registry_local_store"

\* update_registry_local_store: get_latest_version, get_changes_since
UpdateRegistryLocalStore ==
    /\ pc = "update_registry_local_store"
    /\ IF ~reg.answered
       THEN Abort /\ UNCHANGED loc
       ELSE /\ loc' = [loc EXCEPT !.latestVersion = reg.latest,
                                  !.records = reg.canister]
            /\ Goto("wr_sort")
    /\ UNCHANGED <<cfg, reg, arch, pool, sm, mr, result, trace>>

WrSort ==
    /\ pc = "wr_sort"
    /\ loc' = [loc EXCEPT !.records = SortByVersion(@), !.i = 1]
    /\ Goto("wr_fold")
    /\ UNCHANGED <<cfg, reg, arch, pool, sm, mr, result, trace>>

WrFold ==
    /\ pc = "wr_fold"
    /\ IF loc.i <= Len(loc.records)
       THEN /\ loc' = [loc EXCEPT
                        !.changelog = FoldRecord(@, loc.records[loc.i], loc.latestVersion),
                        !.i = @ + 1]
            /\ Goto("wr_fold")
       ELSE /\ loc' = [loc EXCEPT !.i = 0]
            /\ Goto("wr_store")
    /\ UNCHANGED <<cfg, reg, arch, pool, sm, mr, result, trace>>

\* local_store.store(latest_version + i + 1, cle), or the write fails
WrStore ==
    /\ pc = "wr_store"
    /\ IF loc.i < Len(loc.changelog)
       THEN \E written \in BOOLEAN :
            IF written
            THEN LET v == loc.latestVersion + loc.i + 1 IN
                 /\ reg' = [reg EXCEPT !.store =
                                 Append(@, [v |-> v, cle |-> loc.changelog[loc.i + 1]])]
                 /\ Log("store", v)
                 /\ loc' = [loc EXCEPT !.i = @ + 1]
                 /\ Goto("wr_store")
            ELSE Abort /\ UNCHANGED <<reg, loc, trace>>
       ELSE /\ pc' = "done"
            /\ stack' = <<>>
            /\ UNCHANGED <<reg, loc, trace>>
    /\ UNCHANGED <<cfg, arch, pool, sm, mr, result>>

StoreNext ==
    \/ UpdateRegistryLocalStore
    \/ WrSort
    \/ WrFold
    \/ WrStore

StoreSpec == StoreInit /\ [][StoreNext]_vars

\* ----------------------------------------------------------------------- C13
ReportedVersions == {reg.canister[j].version : j \in DOMAIN reg.canister}

\* the fetched records cover N distinct consecutive versions L+1..L+N
Consecutive ==
    /\ reg.answered
    /\ ReportedVersions = (reg.latest + 1)..(reg.latest + Cardinality(ReportedVersions))

\* C13: given a cached latest version L and fetched records covering N
\* distinct consecutive versions L+1..L+N, in any order,
\* update_registry_local_store writes exactly N change-sets, at the versions
\* L+1, L+2, ..., L+N in ascending order and with no gap.
C13_SequentialChangelog ==
    (pc = "done" /\ Consecutive) =>
        /\ Len(reg.store) = Cardinality(ReportedVersions)
        /\ \A i \in DOMAIN reg.store : reg.store[i].v = reg.latest + i

C13_Witness ==
    /\ pc = "done"
    /\ Consecutive
    /\ Cardinality(ReportedVersions) >= 2
    /\ reg.canister # SortByVersion(reg.canister)
    /\ Len(reg.store) = 2

\* ----------------------------------------------------------------------- C14
\* the insertions of a CUP at a CUPHeightWasFinalized exit point
Insertions == {j \in DOMAIN trace : trace[j].e = "insert_cup"}

\* the last CUP insertion before index i (0 if none)
InsertionBefore(i) ==
    IF \E j \in Insertions : j < i
    THEN CHOOSE j \in Insertions : j < i /\ \A k \in Insertions : k < i => k <= j
    ELSE 0

VerifyErrors == {"verify_StateDivergence", "verify_UpgradeDetected"}

\* C14: at exit point CUPHeightWasFinalized(h) of restore, the purge of the
\* persisted states below the CUP height and the purge of the validated pool
\* artifacts below it happen only after verify_latest_cup has returned Ok for
\* the newly inserted CUP; if that verification returns StateDivergence or
\* UpgradeDetected, restore returns the error and neither purge is performed.
C14_PurgeOnlyAfterOk ==
    cfg.op = "restore" =>
        /\ \A i \in DOMAIN trace : trace[i].e = "purge_pool" =>
                LET j == InsertionBefore(i) IN
                /\ j > 0
                /\ trace[i].h = trace[j].h
                /\ trace[i - 1] = Ev("prune", trace[j].h)
                /\ \E k \in (j + 1)..(i - 2) : trace[k] = Ev("verify_Ok", trace[j].h)
                /\ \A k \in (j + 1)..(i - 2) : trace[k].e \notin VerifyErrors
        /\ \A k \in DOMAIN trace :
                (trace[k].e \in VerifyErrors /\ InsertionBefore(k) > 0) =>
                    /\ \A i \in DOMAIN trace :
                            i > k => trace[i].e \notin {"prune", "purge_pool", "ingest"}
                    /\ pc = "done" =>
                            /\ "verify_" \o result.t = trace[k].e
                            /\ pool.low < trace[InsertionBefore(k)].h

C14_Witness ==
    /\ cfg.op = "restore"
    /\ pc = "done"
    /\ result.t = "StateDivergence"
    /\ Happened("insert_cup")
    /\ Happened("purge_pool")

\* ----------------------------------------------------------------------- C15
\* the exit point of the last ingestion step has been acted upon
ExitActedUpon ==
    \/ trace # <<>> /\ Last.e \in {"insert_cup", "registry", "prune"}
    \/ /\ pc = "done"
       /\ result.t = "Ok"
       /\ loc.exit.t = "Done"
       /\ ~TargetReached(cfg.target, loc.lbh)

LastIngest ==
    CHOOSE i \in DOMAIN trace :
        trace[i].e = "ingest" /\ \A k \in DOMAIN trace : trace[k].e = "ingest" => k <= i

\* every batch the pool can yield was handed over and the state of the last
\* one has been waited for since the last ingestion step
DeliveredAndAwaited ==
    /\ Happened("ingest")
    /\ \A h \in cfg.expected0..pool.finalized : h \in DeliveredHeights
    /\ mr.expected > pool.finalized
    /\ mr.queue = <<>>
    /\ sm.latest = mr.expected - 1
    /\ \E w \in DOMAIN trace :
            w > LastIngest /\ trace[w] = Ev("waited", sm.latest)

\* C15: in every iteration of the restore loop all batches reachable from
\* the artifacts just ingested are delivered, and the state at the last
\* delivered height has materialized, before the exit point of that ingestion
\* step is acted upon; in particular a new CUP is inserted into the pool only
\* after all such batches were delivered and awaited.
C15_DeliverBeforeExit ==
    (cfg.op = "restore" /\ ExitActedUpon) => DeliveredAndAwaited

C15_Witness ==
    /\ cfg.op = "restore"
    /\ trace # <<>>
    /\ Last.e = "insert_cup"
    /\ Cardinality(DeliveredHeights) >= 2
    /\ DeliveredAndAwaited

\* ----------------------------------------------------------------------- C16
HashAnswerKinds == {"digest", "nfc", "nfcOther", "perm", "pending"}

\* C16: get_state_hash called for height h has exactly three outcomes: it
\* returns the digest once the state manager reports one; it returns no hash
\* when the state manager reports "state not fully certified" for exactly h;
\* any other error, "not fully certified" for another height included, aborts
\* the process.  A transient error is never returned: the call is retried.
C16_HashWaiterOutcomes ==
    [][(pc = "get_state_hash" /\ <<pc, loc, sm.hash>>' # <<pc, loc, sm.hash>>) =>
        LET a == loc'.gshAns
            returned == pc' = Head(stack) /\ stack' = Tail(stack)
        IN /\ a \in HashAnswerKinds
           /\ result' = result
           /\ (a = "digest") <=> (returned /\ loc'.gsh = StateDigest(loc.gshH))
           /\ (a = "nfc") <=> (returned /\ loc'.gsh = NoHash)
           /\ (a \in {"nfcOther", "perm"}) <=> (pc' = "aborted")
           /\ (a = "pending") <=> (pc' = "get_state_hash" /\ stack' = stack
                                    /\ loc'.gsh = loc.gsh)]_vars

C16_Witness ==
    /\ pc = "aborted"
    /\ loc.gshAns = "nfcOther"
    /\ loc.gshH \in sm.states
    /\ sm.hash[loc.gshH] = "nfcOther"

\* ----------------------------------------------------------------------- C17
\* the Player is inside the delivery loop of finalized batches / of the
\* extra batch
InBatchLoop == pc \in {"deliver_batches", "cdb_loop"}

InExtraLoop == pc = "deb_loop"

\* a queue-full refusal is never surfaced, an ignored batch is fatal, and a
\* loop that returns reports the last batch the pipeline accepted
BackpressurePolicy ==
    /\ (trace # <<>> /\ Last.e = "full") =>
            /\ InBatchLoop \/ InExtraLoop
            /\ result = NoRes
            /\ Last.h = mr.expected
    /\ Happened("ignored") =>
            /\ Last.e = "ignored"
            /\ pc = "aborted"
            /\ result = NoRes
    /\ pc \in {"replay_wait", "restore_wait"} => loc.lbh = mr.expected - 1
    /\ (pc = "replay_extra_delivered" /\ loc.extraDelivered) =>
            loc.extraH = mr.expected - 1

\* C17: the batch delivery loop treats a queue-full outcome as recoverable: it
\* retries, never returns or surfaces it as an error, and as the pipeline
\* eventually accepts batches the loop eventually returns the last height
\* actually delivered; an ignored outcome aborts the process.  The same holds
\* for the delivery of the extra batch.
C17_QueueFullRetried ==
    /\ []BackpressurePolicy
    /\ []<>~(InBatchLoop \/ InExtraLoop)

C17_Witness ==
    /\ Happened("full")
    /\ \E i \in DOMAIN trace :
            /\ trace[i].e = "full"
            /\ \E j \in DOMAIN trace : j > i /\ trace[j] = Ev("deliver", trace[i].h)
    /\ pc = "done"
    /\ result.t = "Ok"

\* ----------------------------------------------------------------------- C18
Certifications == {i \in DOMAIN trace : trace[i].e = "certification"}

AfterWait == pc \in {"replay_prune", "replay_extra_prune", "restore_target"}

LatestIsAwaited ==
    /\ sm.latest <= mr.expected - 1
    /\ AfterWait =>
            /\ sm.latest = loc.waitH
            /\ loc.waitH = loc.lbh
            /\ loc.lbh = mr.expected - 1
            /\ trace # <<>> /\ Last = Ev("waited", loc.lbh)

\* C19: at every point where replay or restore continues after waiting for
\* a delivered height h, the state manager's latest computed height equals h
\* and never exceeds the last height for which a batch was successfully
\* delivered; if the state manager reports a latest height other than h once
\* the wait is over, wait_for_state aborts instead of continuing.
C19_LatestEqualsAwaited ==
    /\ []LatestIsAwaited
    /\ [][(pc = "wfs_assert" /\ pc' # pc /\ sm.latest # loc.waitH) =>
                pc' = "aborted"]_vars

C19_Witness ==
    /\ pc = "replay_prune"
    /\ loc.lbh > cfg.latest0 + 1
    /\ sm.latest = loc.lbh

\* ----------------------------------------------------------------------- C20
\* the Player is inside wait_for_state or the hash waiter it calls
WaitPcs == {"wait_for_state", "get_state_hash", "wfs_assert"}

\* wait_for_state has returned to its caller, or the hash waiter it called
\* met a fatal answer of the state manager
WaitEnded ==
    \/ pc \notin WaitPcs /\ pc # "aborted"
    \/ pc = "aborted" /\ loc.gshAns \in {"perm", "nfcOther"}

\* C20: wait_for_state(h) has no deadline: it returns only in a state where
\* the state manager's latest computed height is at least h, it eventually
\* returns if the state manager eventually reaches h, and as long as the state
\* manager has not reached h it blocks, without returning an error or
\* aborting.
C20_WaitsWithoutDeadline ==
    /\ [][(pc = "wait_for_state" /\ sm.latest < loc.waitH) =>
                (pc' = pc /\ stack' = stack /\ result' = result)]_vars
    /\ [][(pc = "wfs_assert" /\ pc' \notin {pc, "aborted"}) =>
                (sm.latest >= loc.waitH /\ pc' = Head(stack))]_vars
    /\ (pc = "wait_for_state") ~> WaitEnded

C20_Witness ==
    /\ cfg.op = "restore"
    /\ trace # <<>>
    /\ Last = Ev("waited", loc.waitH)
    /\ loc.waitH > cfg.latest0
    /\ sm.latest = loc.waitH
    /\ pc = "restore_target"

\* ----------------------------------------------------------------------- C21
\* the heights handed to the pipeline and accepted, in the order of the calls
Deliveries == SelectSeq(trace, LAMBDA ev : ev.e = "deliver")

\* the last height a replay call delivers: the ceiling of the finalized
\* batches (if the state manager is not already past it), and one more for
\* the extra batch
ReplayTop ==
    LET before == cfg.expected0 - 1
        replayed == IF cfg.hasPool /\ Ceiling > before THEN Ceiling ELSE before
    IN replayed + (IF loc.extraDelivered THEN 1 ELSE 0)

RegistryUpdates == {i \in DOMAIN trace : trace[i].e = "registry"}

AtNewerRegistryVersion ==
    pc = "restore_exit" /\ loc.exit.t = "NewerRegistryVersion"

\* C22: at exit point NewerRegistryVersion(v) of restore, after the local
\* store was updated and the registry client polled again, restore goes on to
\* the next ingestion step only if the client's latest version is at least v,
\* and aborts otherwise; at every later ingestion step the client's latest
\* version is at least v, and it never decreases during restore.
C22_RegistryCatchesUpOrAbort ==
    /\ [][(AtNewerRegistryVersion /\ pc' # pc) =>
            /\ IF reg'.latest >= loc.exit.h
               THEN pc' = "restore_ingest" /\ stack' = stack
               ELSE pc' = "aborted"
            /\ result' = result]_vars
    /\ [][reg'.latest >= reg.latest]_vars
    /\ [](cfg.op = "restore" =>
            /\ (pc = "restore_ingest" /\ loc.exit.t = "NewerRegistryVersion") =>
                    reg.latest >= loc.exit.h
            /\ \A i \in RegistryUpdates :
                    /\ reg.latest >= trace[i].h
                    /\ (\E j \in DOMAIN trace : j > i /\ trace[j].e = "ingest") =>
                            trace[i].h >= BlockVersion(arch.bump))

C22_Witness ==
    /\ cfg.op = "restore"
    /\ pc = "done"
    /\ result.t = "Ok"
    /\ \E i \in RegistryUpdates :
            /\ trace[i].h = reg.initial + 1
            /\ \E j \in DOMAIN trace : j > i /\ trace[j].e = "ingest"
    /\ reg.latest > reg.initial
    /\ arch.remaining = {}

\* ----------------------------------------------------------------------- C23
AtStateBehind == pc = "restore_exit" /\ loc.exit.t = "StateBehind"

\* C23: at exit point StateBehind(c) of restore the states below c are
\* removed only when c does not exceed the state manager's latest computed
\* height; if c exceeds it restore aborts without removing any state.  The
\* state at the latest computed height is never removed by this step.
C23_PruneBelowCertifiedOnly ==
    [][(AtStateBehind /\ pc' # pc) =>
            /\ sm'.latest = sm.latest
            /\ IF loc.exit.h <= sm.latest
               THEN /\ sm'.states = {x \in sm.states : x >= loc.exit.h}
                    /\ sm.latest \in sm.states => sm.latest \in sm'.states
                    /\ pc' = "restore_ingest"
               ELSE /\ sm' = sm
                    /\ pc' = "aborted"
                    /\ result' = result]_vars

C23_Witness ==
    /\ cfg.op = "restore"
    /\ pc = "restore_ingest"
    /\ loc.exit.t = "StateBehind"
    /\ trace # <<>>
    /\ Last = Ev("prune", sm.latest)
    /\ sm.states = {sm.latest}
    /\ sm.latest > cfg.latest0
    /\ cfg.states0 \ sm.states # {}

\* ----------------------------------------------------------------------- C24
\* the finalized batches replayed before the extra function was called
Replayed == {trace[i].h : i \in {j \in DOMAIN trace : trace[j].e = "deliver" /\ j < ExtraAt}}

\* C24: the extra batch carries the pipeline's next expected batch height as
\* its number.  With a consensus pool its registry version is that of the
\* latest finalized block's context, its time that block's time plus exactly
\* 1 nanosecond (strictly greater than the time of every replayed batch) and
\* its randomness the seed derived from that block; without a pool they are
\* the registry client's latest version, the wall-clock time and the all-zero
\* seed.
C24_ExtraBatchContext ==
    /\ [][(pc = "deliver_extra_batch" /\ pc' \notin {pc, "aborted"}) =>
            LET b == loc'.extraBatch IN
            /\ b.number = mr.expected
            /\ loc'.extraH = b.number
            /\ IF cfg.hasPool
               THEN /\ loc'.block \in FinalizedBlocks(pool.finalized)
                    /\ b.version = loc'.block.version
                    /\ b.time = loc'.block.time + 1
                    /\ b.randomness = BlockSeed(pool.finalized)
                    /\ b.randomness # ZeroSeed
               ELSE /\ b.version = reg.latest
                    /\ b.time \in WallClock
                    /\ b.randomness = ZeroSeed]_vars
    /\ [](Happened("extra_fn") =>
            /\ cfg.hasPool => \A h \in Replayed : BlockTime(h) < loc.extraBatch.time
            /\ \A i \in DOMAIN trace :
                    (trace[i].e = "deliver" /\ i > ExtraAt) =>
                        trace[i].h = loc.extraBatch.number)

C24_Witness ==
    /\ cfg.op = "replay"
    /\ cfg.hasPool
    /\ loc.extraDelivered
    /\ pool.finalized \in Replayed
    /\ Cardinality(Replayed) >= 2
    /\ loc.extraBatch.time = BlockTime(pool.finalized) + 1
    /\ loc.extraBatch.version < reg.latest
    /\ trace # <<>>
    /\ Last = Ev("deliver", loc.extraBatch.number)

\* ----------------------------------------------------------------------- C25
\* what replay does with a pool before it calls the extra function
PoolEvents ==
    {"verify", "verify_Ok", "verify_StateDivergence", "verify_UpgradeDetected",
     "sig_ok", "sig_failed", "hash", "version", "deliver", "full", "ignored",
     "waited", "prune", "certification", "certification_missing"}

AfterExtra == {i \in DOMAIN trace : i > ExtraAt}

\* replay is waiting for, or pruning below, the extra batch
OnBehalfOfExtra ==
    \/ pc \in {"deb_loop", "replay_extra_prune", "replay_status"}
    \/ \E i \in DOMAIN stack : stack[i] = "replay_extra_prune"

\* C25: without a consensus pool replay performs no CUP verification, no
\* finalized-batch delivery and no certification redelivery, yet still calls
\* the extra-batch path.  In both modes, when the extra function returns no
\* messages no extra batch is delivered and no state is waited for or pruned
\* on its behalf; when it returns messages replay waits for the extra batch's
\* state and prunes below it before checking the messages' statuses.
C25_ExtraPathInBothModes ==
    cfg.op = "replay" =>
        /\ ~cfg.hasPool =>
            /\ \A i \in DOMAIN trace : i < ExtraAt => trace[i].e \notin PoolEvents
            /\ \A i \in DOMAIN trace : trace[i].e \notin PoolEvents \ {"deliver", "full",
                                            "ignored", "waited", "prune"}
            /\ pool = cfg.pool0
        /\ pc = "done" /\ result.t = "Ok" => Happened("extra_fn")
        /\ (Happened("extra_fn") /\ Injected = 0) =>
            /\ ~OnBehalfOfExtra
            /\ ~loc.extraDelivered
            /\ mr.expected = loc.extraH
            /\ \A i \in AfterExtra : trace[i] = Ev("waited", sm.latest)
            /\ Cardinality(AfterExtra) <= 1
            /\ AfterExtra # {} => sm.latest = loc.extraH - 1
        /\ \A k \in StatusEvents :
            /\ Injected > 0
            /\ \E d, w, p \in AfterExtra :
                /\ d < w /\ w < p /\ p < k
                /\ trace[d] = Ev("deliver", loc.extraH)
                /\ trace[w] = Ev("waited", loc.extraH)
                /\ trace[p] = Ev("prune", loc.extraH)
            /\ \A x \in sm.states : x >= loc.extraH

C25_Witness ==
    /\ cfg.op = "replay"
    /\ ~cfg.hasPool
    /\ pc = "done"
    /\ result.t = "Ok"
    /\ Injected = 0
    /\ Len(trace) = 2
    /\ cfg.latest0 > 0

\* ----------------------------------------------------------------------- C26
\* C26 (as claimed): delivering the extra batch advances the executed batch
\* height by one beyond the last finalized height and leaves the consensus
\* pool unchanged: its finalized height, finalized blocks and highest CUP are
\* the same before and after replay.
C26_OneBeyondFinalized ==
    (cfg.op = "replay" /\ cfg.hasPool /\ loc.extraDelivered
        /\ pc = "done" /\ result.t = "Ok") =>
        /\ loc.extraBatch.number = pool.finalized + 1
        /\ sm.latest = pool.finalized + 1
        /\ pool = cfg.pool0

\* ----------------------------------------------------------------------- C27
\* the finalized height the pool had reached when trace[i] was recorded
FinalizedAt(i) ==
    LET before == {j \in 1..i : trace[j].e = "ingest"} IN
    IF before = {} THEN cfg.pool0.finalized
    ELSE trace[CHOOSE j \in before : \A k \in before : k <= j].h

\* C27: during restore with target height T every delivery step is clamped
\* to min(T, finalized height of the pool): no batch with a height above T is
\* handed to the pipeline, even when the artifacts ingested in that step
\* finalize heights above T.
C27_RestoreClampedToTarget ==
    (cfg.op = "restore" /\ cfg.target # NoTarget) =>
        /\ \A i \in DOMAIN trace :
            trace[i].e \in {"deliver", "full", "ignored"} =>
                /\ trace[i].h <= cfg.target
                /\ trace[i].h <= FinalizedAt(i)
        /\ mr.expected <= (IF cfg.expected0 > cfg.target THEN cfg.expected0
                           ELSE cfg.target + 1)

C27_Witness ==
    /\ cfg.op = "restore"
    /\ cfg.target # NoTarget
    /\ pool.finalized > cfg.target
    /\ pool.finalized > cfg.pool0.finalized
    /\ cfg.target \in DeliveredHeights
    /\ pc = "done"
    /\ result.t = "Ok"
    /\ result.h = cfg.target

\* ----------------------------------------------------------------------- C28
\* how many of the fetched records of version v mutate key k
Fetched(v, k) ==
    Cardinality({j \in DOMAIN reg.canister :
                    reg.canister[j].version = v /\ reg.canister[j].key = k})

\* how many mutations of key k the change-set written at version v holds
Written(v, k) ==
    LET at == {i \in DOMAIN reg.store : reg.store[i].v = v} IN
    IF at = {} THEN 0
    ELSE LET cle == reg.store[CHOOSE i \in at : TRUE].cle
         IN Cardinality({j \in DOMAIN cle : cle[j] = k})

\* C28 (as claimed): write_records_to_local_store places every fetched record
\* in the change-set stored under the record's own registry version: for
\* every record with version v the key mutation ends up in the entry written
\* at version v and in no other, also when the fetched versions are not
\* consecutive.
C28_RecordsUnderOwnVersion ==
    pc = "done" =>
        \A v \in (reg.latest + 1)..(reg.latest + MaxVersion), k \in Keys :
            Written(v, k) = Fetched(v, k)

\* ----------------------------------------------------------------------- C29
\* a pair of the state manager: its latest height and the digest it reports
\* for that height
PairOfState(p) ==
    /\ p.h = sm.latest
    /\ p.d = StateDigest(p.h)
    /\ sm.hash[p.h] = "digest"

\* a pair of the latest CUP: its height and its state hash, taken when the
\* state manager reports no digest for its latest height
PairOfCup(p) ==
    /\ cfg.hasPool
    /\ p.h = pool.cup.height
    /\ p.d = pool.cup.hash
    /\ sm.hash[sm.latest] # "digest"

\* C29: the pair returned by get_latest_state_height_and_hash, and hence by a
\* successful replay or restore, is a height together with the digest
\* committed for that same height: the state manager's latest height with its
\* digest, or, when the state manager has no digest for its latest height,
\* the latest CUP's height with the CUP's state hash; the latest state height
\* is never paired with the digest of another height.
C29_HeightAndItsOwnHash ==
    /\ [][(pc = "glsh_hash" /\ pc' \notin {pc, "aborted"}) =>
            /\ pc' = Head(stack)
            /\ sm'.latest = sm.latest
            /\ loc.glshH = sm.latest
            /\ IF sm'.hash[sm.latest] = "digest"
               THEN loc'.params = [h |-> sm.latest, d |-> StateDigest(sm.latest)]
               ELSE /\ cfg.hasPool
                    /\ loc'.params = [h |-> pool.cup.height, d |-> pool.cup.hash]]_vars
    /\ []((pc = "done" /\ result.t \in {"Ok", "UpgradeDetected"}) =>
            /\ PairOfState(result) \/ PairOfCup(result)
            /\ result.h # pool.cup.height => result.d = StateDigest(result.h))

C29_Witness ==
    /\ pc = "done"
    /\ result.t = "Ok"
    /\ PairOfCup(result)
    /\ result.h < sm.latest
    /\ result.d # StateDigest(sm.latest)
    /\ Happened("deliver")

\* ----------------------------------------------------------------------- C30
\* the process was aborted for a failure of a collaborator the claim leaves
\* aside: a message that did not complete with a reply, a batch the pipeline
\* ignored, a fatal error of the state manager
AbortedForCollaborator ==
    \/ trace # <<>> /\ Last.e \in (IngressStatuses \ {"Reply"}) \cup {"ignored"}
    \/ loc.gshAns \in {"perm", "nfcOther"}

\* C30 (as claimed): on a Player without a consensus pool replay returns
\* Ok((height, hash)) for every state-manager state and every extra function
\* whose messages complete with a reply: computing the final (height, hash)
\* never requires a CUP or a pool, also when no extra messages are supplied
\* and the latest state height has no full state hash.
C30_NoPoolNeverNeedsCup ==
    (cfg.op = "replay" /\ ~cfg.hasPool) =>
        /\ pc = "aborted" => AbortedForCollaborator
        /\ pc = "done" => result.t = "Ok"

\* ----------------------------------------------------------------------- C31
\* the restore call is over: it returned, or the process was aborted
RestoreEnded == pc \in {"done", "aborted"}

IngestionSteps == {i \in DOMAIN trace : trace[i].e = "ingest"}

\* the number of heights the archive held when restore was called
ArchivedHeights == MaxHeight - cfg.pool0.finalized

\* the exit points restore handles by going round its loop again
HandledExits == {"CUPHeightWasFinalized", "NewerRegistryVersion", "StateBehind"}

\* C31: for a finite archive and collaborators that eventually respond, every
\* restore call eventually returns Ok, returns a ReplayError or aborts: the
\* driving loop cannot repeat forever, because each handled exit point (new
\* CUP inserted, registry advanced to at least v, state pruned below the
\* certified height) lets the next ingestion step make progress (it does not
\* stop at the same exit point again, and an archived height stops at most
\* three ingestion steps); Ok is returned only at exit point Done or when the
\* target height was reached.
C31_RestoreTerminates ==
    /\ (cfg.op = "restore") => <>RestoreEnded
    /\ [][(pc = "restore_ingest" /\ pc' # pc /\ loc.exit.t \in HandledExits) =>
            loc'.exit # loc.exit]_vars
    /\ [](cfg.op = "restore" =>
            Cardinality(IngestionSteps) <= 3 * ArchivedHeights + 1)
    /\ []((cfg.op = "restore" /\ pc = "done") =>
            /\ result.t \in {"Ok", "StateDivergence", "UpgradeDetected"}
            /\ result.t = "Ok" =>
                    \/ loc.exit.t = "Done"
                    \/ TargetReached(cfg.target, loc.lbh))

C31_Witness ==
    /\ cfg.op = "restore"
    /\ pc = "done"
    /\ result.t = "Ok"
    /\ loc.exit.t = "Done"
    /\ Happened("insert_cup")
    /\ Happened("registry")
    /\ Cardinality(IngestionSteps) >= 3
    /\ cfg.latest0 = 0
    /\ DeliveredHeights = 1..MaxHeight

====
